---- MODULE Spec2Model ----
(***************************************************************************)
(* A model of wesl-metadata: the MetadataCommand builder, the exec         *)
(* pipeline (spawn, exit status, stderr/stdout decoding, line extraction,  *)
(* deserialization) and the queries on the resulting Metadata graph.       *)
(*                                                                         *)
(* Text is a sequence of symbols.  A symbol is one character ("x", " ",    *)
(* "\n", "/"), a run of characters without newline, brace or separator     *)
(* ("r", "wesl.toml", "--offline"), a whole JSON object text ("{good}"),   *)
(* or, in a byte stream, the byte 0xFF ("BAD"), which no UTF-8 text holds. *)
(***************************************************************************)
EXTENDS Integers, Sequences, FiniteSets, TLC

VARIABLES
    cmd,          \* the MetadataCommand (lib.rs 464-490)
    calls,        \* history of the builder calls made on cmd (ghost)
    callerEnv,    \* environment of the calling process
    command,      \* the std::process::Command built by wesl_command
    pc,           \* position of the caller
    proc,         \* what the external process did (spawn, status, streams)
    callerStderr, \* what reached the caller's own standard error stream
    result,       \* the value exec returned
    doc,          \* a JSON text handed to MetadataCommand::parse
    parsed,       \* the value parse returned
    qres          \* the outcome of the last query on the Metadata

vars == <<cmd, calls, callerEnv, command, pc, proc, callerStderr, result,
          doc, parsed, qres>>

\* ------------------------------------------------------------------ bounds

MaxOut == 5      \* symbols on the process's standard output
MaxPkgs == 2     \* entries of "packages" in a JSON document
MaxNodes == 1    \* entries of "nodes" in a JSON document
MaxCalls == 3    \* builder calls before wesl_command

\* ----------------------------------------------------------------- helpers

NoneV == [some |-> FALSE]
Some(x) == [some |-> TRUE, v |-> x]

SeqsUpTo(S, n) == UNION {[1..k -> S] : k \in 0..n}

Restrict(f, S) == [k \in S |-> f[k]]

\* ------------------------------------------------------------- JSON values
\* A JSON value is a tagged tree; an object is a function from its keys.

JNull == [t |-> "null"]
JStr(s) == [t |-> "str", v |-> s]
JNum(n) == [t |-> "num", v |-> n]
JBool(b) == [t |-> "bool", v |-> b]
JArr(s) == [t |-> "arr", v |-> s]
JObj(f) == [t |-> "obj", v |-> f]

HasKey(j, k) == k \in DOMAIN j.v

\* ------------------------------------------------------------------- paths
\* A path is its text, a sequence of symbols; "/" is the separator.

IsAbsolute(p) == Len(p) > 0 /\ p[1] = "/"

\* Variant: the two texts put end to end, no separator.
Join_concat(base, rel) == base \o rel

\* Utf8PathBuf::join (PathBuf::push): an absolute argument replaces the
\* base; otherwise a separator is added unless the base is empty or ends
\* with one.
Join(base, rel) ==
    IF IsAbsolute(rel) THEN rel
    ELSE IF Len(base) = 0 \/ base[Len(base)] = "/" THEN base \o rel
    ELSE base \o <<"/">> \o rel

\* Path::components: the root, then the names between separators, each name
\* the run of symbols it is made of; empty names (repeated or trailing
\* separators) are skipped.
RECURSIVE SplitNames(_, _)
SplitNames(p, cur) ==
    IF Len(p) = 0 THEN (IF Len(cur) = 0 THEN <<>> ELSE <<cur>>)
    ELSE IF Head(p) = "/"
    THEN (IF Len(cur) = 0 THEN <<>> ELSE <<cur>>) \o SplitNames(Tail(p), <<>>)
    ELSE SplitNames(Tail(p), Append(cur, Head(p)))
Components(p) ==
    (IF IsAbsolute(p) THEN <<<<"/">>>> ELSE <<>>) \o SplitNames(p, <<>>)

\* PartialEq of Utf8PathBuf compares components, not text.
PathEq(p, q) == Components(p) = Components(q)

ManifestFile == <<"wesl.toml">>

\* --------------------------------------------------------- deserialization
\* serde's derived Deserialize: X_ok(j) says whether the JSON value j
\* deserializes as an X, X_val(j) is the value it gives.  Unknown keys are
\* ignored, a missing Option field is None, a missing #[serde(default)]
\* field takes its default, any other missing field is an error.

AllOk(s, Good(_)) == \A i \in 1..Len(s) : Good(s[i])
MapSeq(s, F(_)) == [i \in 1..Len(s) |-> F(s[i])]

String_ok(j) == j.t = "str"

\* PackageId is #[serde(transparent)]: its JSON is the bare string.
PackageId_ok(j) == String_ok(j)
PackageId_val(j) == j.v

PackageManager_ok(j) == j.t = "str" /\ j.v \in {"Npm", "Cargo"}

Edition_ok(j) == j.t = "str" /\ j.v \in {"WGSL", "WESL"}
Edition_val(j) == IF j.v = "WGSL" THEN "Wgsl" ELSE "WeslUnstable2025"

\* Option<T> of a field: key missing or null is None.
OptField_ok(j, k, Good(_)) ==
    ~HasKey(j, k) \/ j.v[k].t = "null" \/ Good(j.v[k])
OptField_val(j, k, Val(_)) ==
    IF ~HasKey(j, k) \/ j.v[k].t = "null" THEN NoneV ELSE Some(Val(j.v[k]))

ReqField_ok(j, k, Good(_)) == HasKey(j, k) /\ Good(j.v[k])

Vec_ok(j, Good(_)) == j.t = "arr" /\ AllOk(j.v, Good)

NodeDependency_ok(j) ==
    /\ j.t = "obj"
    /\ ReqField_ok(j, "name", String_ok)
    /\ ReqField_ok(j, "pkg", PackageId_ok)
NodeDependency_val(j) ==
    [name |-> j.v["name"].v, pkg |-> PackageId_val(j.v["pkg"])]

VecNodeDependency_ok(j) == Vec_ok(j, NodeDependency_ok)
VecPackageId_ok(j) == Vec_ok(j, PackageId_ok)

Node_ok(j) ==
    /\ j.t = "obj"
    /\ ReqField_ok(j, "id", PackageId_ok)
    /\ (HasKey(j, "renamed_dependencies")
          => VecNodeDependency_ok(j.v["renamed_dependencies"]))
    /\ ReqField_ok(j, "dependencies", VecPackageId_ok)
\* Variant: renamed_dependencies always takes its default.
Node_val_norenamed(j) ==
    [id |-> PackageId_val(j.v["id"]),
     renamed_dependencies |-> <<>>,
     dependencies |-> MapSeq(j.v["dependencies"].v, PackageId_val)]

Node_val(j) ==
    [id |-> PackageId_val(j.v["id"]),
     renamed_dependencies |->
        IF HasKey(j, "renamed_dependencies")
        THEN MapSeq(j.v["renamed_dependencies"].v, NodeDependency_val)
        ELSE <<>>,
     dependencies |-> MapSeq(j.v["dependencies"].v, PackageId_val)]

VecNode_ok(j) == Vec_ok(j, Node_ok)

Resolve_ok(j) ==
    /\ j.t = "obj"
    /\ ReqField_ok(j, "nodes", VecNode_ok)
    /\ OptField_ok(j, "root", PackageId_ok)
Resolve_val(j) ==
    [nodes |-> MapSeq(j.v["nodes"].v, Node_val),
     root |-> OptField_val(j, "root", PackageId_val)]

Dependency_ok(j) ==
    /\ j.t = "obj"
    /\ ReqField_ok(j, "name", String_ok)
    /\ OptField_ok(j, "rename", String_ok)
    /\ OptField_ok(j, "path", String_ok)
Dependency_val(j) ==
    [name |-> j.v["name"].v,
     rename |-> OptField_val(j, "rename", LAMBDA x : x.v),
     path |-> OptField_val(j, "path", LAMBDA x : x.v)]

VecDependency_ok(j) == Vec_ok(j, Dependency_ok)

\* Package, with the fields the queries and the schema rules read: the other
\* fields of the struct (authors, license, license_file, categories,
\* keywords, readme, repository, homepage, documentation) follow the shape
\* of description (Option) or of edition (#[serde(default)]).
\* Variant: metadata declared without #[serde(default)].
Package_ok_metadatarequired(j) ==
    /\ j.t = "obj"
    /\ ReqField_ok(j, "name", String_ok)
    /\ ReqField_ok(j, "version", String_ok)
    /\ ReqField_ok(j, "id", PackageId_ok)
    /\ OptField_ok(j, "description", String_ok)
    /\ ReqField_ok(j, "dependencies", VecDependency_ok)
    /\ ReqField_ok(j, "manifest_path", String_ok)
    /\ (HasKey(j, "edition") => Edition_ok(j.v["edition"]))
    /\ HasKey(j, "metadata")

Package_ok(j) ==
    /\ j.t = "obj"
    /\ ReqField_ok(j, "name", String_ok)
    /\ ReqField_ok(j, "version", String_ok)
    /\ ReqField_ok(j, "id", PackageId_ok)
    /\ OptField_ok(j, "description", String_ok)
    /\ ReqField_ok(j, "dependencies", VecDependency_ok)
    /\ ReqField_ok(j, "manifest_path", String_ok)
    /\ (HasKey(j, "edition") => Edition_ok(j.v["edition"]))
Package_val(j) ==
    [name |-> j.v["name"].v,
     version |-> j.v["version"].v,
     id |-> PackageId_val(j.v["id"]),
     description |-> OptField_val(j, "description", LAMBDA x : x.v),
     dependencies |-> MapSeq(j.v["dependencies"].v, Dependency_val),
     manifest_path |-> j.v["manifest_path"].v,
     edition |-> IF HasKey(j, "edition") THEN Edition_val(j.v["edition"])
                 ELSE "Wgsl",
     metadata |-> IF HasKey(j, "metadata") THEN j.v["metadata"] ELSE JNull]

VecPackage_ok(j) == Vec_ok(j, Package_ok)

Bool_ok(j) == j.t = "bool"
VecString_ok(j) == Vec_ok(j, String_ok)

\* fn default_true
default_true == TRUE

\* Target: required_features is renamed "required-features" and, like
\* edition, is #[serde(default)]; doctest, test and doc are
\* #[serde(default = "default_true")].
Target_ok(j) ==
    /\ j.t = "obj"
    /\ ReqField_ok(j, "name", String_ok)
    /\ (HasKey(j, "required-features")
          => VecString_ok(j.v["required-features"]))
    /\ ReqField_ok(j, "src_path", String_ok)
    /\ (HasKey(j, "edition") => Edition_ok(j.v["edition"]))
    /\ (HasKey(j, "doctest") => Bool_ok(j.v["doctest"]))
    /\ (HasKey(j, "test") => Bool_ok(j.v["test"]))
    /\ (HasKey(j, "doc") => Bool_ok(j.v["doc"]))

\* Variant: doc declared with a plain #[serde(default)], which is false.
Target_val_docfalse(j) ==
    [name |-> j.v["name"].v,
     required_features |->
        IF HasKey(j, "required-features")
        THEN MapSeq(j.v["required-features"].v, LAMBDA x : x.v) ELSE <<>>,
     src_path |-> j.v["src_path"].v,
     edition |-> IF HasKey(j, "edition") THEN Edition_val(j.v["edition"])
                 ELSE "Wgsl",
     doctest |-> IF HasKey(j, "doctest") THEN j.v["doctest"].v
                 ELSE default_true,
     test |-> IF HasKey(j, "test") THEN j.v["test"].v ELSE default_true,
     doc |-> IF HasKey(j, "doc") THEN j.v["doc"].v ELSE FALSE]

Target_val(j) ==
    [name |-> j.v["name"].v,
     required_features |->
        IF HasKey(j, "required-features")
        THEN MapSeq(j.v["required-features"].v, LAMBDA x : x.v) ELSE <<>>,
     src_path |-> j.v["src_path"].v,
     edition |-> IF HasKey(j, "edition") THEN Edition_val(j.v["edition"])
                 ELSE "Wgsl",
     doctest |-> IF HasKey(j, "doctest") THEN j.v["doctest"].v
                 ELSE default_true,
     test |-> IF HasKey(j, "test") THEN j.v["test"].v ELSE default_true,
     doc |-> IF HasKey(j, "doc") THEN j.v["doc"].v ELSE default_true]

Usize_ok(j) == j.t = "num" /\ j.v >= 0

Metadata_ok(j) ==
    /\ j.t = "obj"
    /\ ReqField_ok(j, "package_manager", PackageManager_ok)
    /\ ReqField_ok(j, "packages", VecPackage_ok)
    /\ OptField_ok(j, "resolve", Resolve_ok)
    /\ ReqField_ok(j, "target_directory", String_ok)
    /\ ReqField_ok(j, "version", Usize_ok)
    /\ ReqField_ok(j, "root_package_directory", String_ok)
Metadata_val(j) ==
    [package_manager |-> j.v["package_manager"].v,
     packages |-> MapSeq(j.v["packages"].v, Package_val),
     resolve |-> OptField_val(j, "resolve", Resolve_val),
     target_directory |-> j.v["target_directory"].v,
     version |-> j.v["version"].v,
     root_package_directory |-> j.v["root_package_directory"].v]


\* ParseJson is the schema half of serde_json::from_str::<Metadata>, on a
\* JSON value already read.
Ok(meta) == [kind |-> "Ok", stderr |-> <<>>, meta |-> Some(meta)]
Err(kind) == [kind |-> kind, stderr |-> <<>>, meta |-> NoneV]
WeslMetadata(text) == [kind |-> "WeslMetadata", stderr |-> text, meta |-> NoneV]

ParseJson(j) == IF Metadata_ok(j) THEN Ok(Metadata_val(j)) ELSE Err("Json")

\* serde_json::from_str::<Target> and ::<Node>, likewise.
ParseTarget(j) == IF Target_ok(j) THEN Ok(Target_val(j)) ELSE Err("Json")
ParseNode(j) == IF Node_ok(j) THEN Ok(Node_val(j)) ELSE Err("Json")

\* ---------------------------------------------------------- JSON documents
\* Constructors of the JSON objects the external tool can print.

PkgObj(id, mp) ==
    JObj([name |-> JStr("n"), version |-> JStr("1.0.0"), id |-> JStr(id),
          dependencies |-> JArr(<<>>), manifest_path |-> JStr(mp)])

NodeObj(id, deps, renamed) ==
    JObj([id |-> JStr(id), dependencies |-> JArr(deps),
          renamed_dependencies |-> JArr(renamed)])

DocObj(pkgs, dir) ==
    JObj([package_manager |-> JStr("Cargo"), packages |-> JArr(pkgs),
          target_directory |-> JStr(<<"t">>), version |-> JNum(1),
          root_package_directory |-> JStr(dir)])

WithKey(j, k, x) ==
    JObj([q \in DOMAIN j.v \cup {k} |-> IF q = k THEN x ELSE j.v[q]])
WithoutKey(j, k) == JObj(Restrict(j.v, DOMAIN j.v \ {k}))

\* --------------------------------------------------------------- text layer

ObjSymbols == {"{good}", "{bad}"}
OutSymbols == ObjSymbols \cup {"x", " ", "\n", "BAD"}
\* What the process may write to its standard error.
ErrStreams ==
    {<<>>, <<"manifest not found">>, <<"BAD">>, <<"manifest not found", "BAD">>}
ExitCodes == {0, 1}

\* The JSON value an object text denotes: "{good}" satisfies the Metadata
\* schema, "{bad}" is a JSON object that lacks the required key "packages".
GoodDoc ==
    WithKey(DocObj(<<PkgObj("a", <<"r", "/", "wesl.toml">>)>>, <<"r">>),
            "resolve",
            JObj([nodes |-> JArr(<<NodeObj("a", <<>>, <<>>)>>),
                  root |-> JStr("a")]))
JsonOf(sym) == IF sym = "{good}" THEN GoodDoc ELSE WithoutKey(GoodDoc, "packages")

FirstChar(sym) == IF sym \in ObjSymbols THEN "{" ELSE sym

\* std::str::from_utf8 / String::from_utf8: strict, the bytes unchanged.
Utf8_ok(bytes) == \A i \in 1..Len(bytes) : bytes[i] # "BAD"

\* str::lines: split at "\n"; a final line ending makes no empty last line.
RECURSIVE SplitLines(_, _)
SplitLines(text, cur) ==
    IF Len(text) = 0 THEN (IF Len(cur) = 0 THEN <<>> ELSE <<cur>>)
    ELSE IF Head(text) = "\n" THEN <<cur>> \o SplitLines(Tail(text), <<>>)
    ELSE SplitLines(Tail(text), Append(cur, Head(text)))
Lines(text) == SplitLines(text, <<>>)

\* Variant: a '{' anywhere in the line counts.
StartsWithBrace_anywhere(line) ==
    \E k \in 1..Len(line) : FirstChar(line[k]) = "{"

\* str::starts_with('{')
StartsWithBrace(line) == Len(line) > 0 /\ FirstChar(line[1]) = "{"

\* Variant: the last matching line instead of the first.
FindLine_last(ls) ==
    IF \E i \in 1..Len(ls) : StartsWithBrace(ls[i])
    THEN Some(ls[CHOOSE i \in 1..Len(ls) :
                    /\ StartsWithBrace(ls[i])
                    /\ \A k \in (i + 1)..Len(ls) : ~StartsWithBrace(ls[k])])
    ELSE NoneV

\* Iterator::find: the first line the predicate accepts, if any.
FindLine(ls) ==
    IF \E i \in 1..Len(ls) : StartsWithBrace(ls[i])
    THEN Some(ls[CHOOSE i \in 1..Len(ls) :
                    /\ StartsWithBrace(ls[i])
                    /\ \A k \in 1..(i - 1) : ~StartsWithBrace(ls[k])])
    ELSE NoneV

\* serde_json::from_str reads one value, white space allowed around it;
\* anything else (no value, trailing characters) is a syntax error.
IsSpace(sym) == sym \in {" ", "\n"}
Trimmed(text) == SelectSeq(text, LAMBDA sym : ~IsSpace(sym))
Syntax_ok(text) ==
    /\ Len(Trimmed(text)) = 1
    /\ Trimmed(text)[1] \in ObjSymbols

\* MetadataCommand::parse
parse(data) ==
    IF Syntax_ok(data) THEN ParseJson(JsonOf(Trimmed(data)[1]))
    ELSE Err("Json")

\* ------------------------------------------------------ the command builder

EnvKeys == <<"OUT_DIR", "WESL">>      \* in BTreeMap (sorted) order
KeySet == {EnvKeys[i] : i \in 1..Len(EnvKeys)}

\* MetadataCommand::default
DefaultCommand ==
    [wesl_path |-> NoneV, manifest_path |-> NoneV, current_dir |-> NoneV,
     no_dependencies |-> FALSE, other_options |-> <<>>, env |-> <<>>,
     verbose |-> FALSE]

\* Variant: an insert that keeps an entry already there.
MapInsert_keepfirst(m, k, x) ==
    [q \in DOMAIN m \cup {k} |-> IF q \in DOMAIN m THEN m[q] ELSE x]

\* BTreeMap::insert
MapInsert(m, k, x) == [q \in DOMAIN m \cup {k} |-> IF q = k THEN x ELSE m[q]]

\* The loop of wesl_command over self.env, in key order, on the Command's
\* own environment map (Command::env and Command::env_remove both insert).
RECURSIVE ApplyEnv(_, _, _)
ApplyEnv(envs, m, i) ==
    IF i > Len(EnvKeys) THEN envs
    ELSE IF EnvKeys[i] \in DOMAIN m
         THEN ApplyEnv(MapInsert(envs, EnvKeys[i], m[EnvKeys[i]]), m, i + 1)
         ELSE ApplyEnv(envs, m, i + 1)

\* Variant: the extra options placed before the fixed flags.
wesl_command_optionsfirst(c, cenv) ==
    [program |-> IF c.wesl_path.some THEN c.wesl_path.v
                 ELSE IF "WESL" \in DOMAIN cenv THEN cenv["WESL"]
                 ELSE "wesl",
     args |-> <<"metadata">>
              \o c.other_options
              \o (IF c.no_dependencies THEN <<"--no-dependencies">> ELSE <<>>)
              \o (IF c.manifest_path.some
                  THEN <<"--manifest-path", c.manifest_path.v>> ELSE <<>>),
     current_dir |-> c.current_dir,
     envs |-> ApplyEnv(<<>>, c.env, 1),
     stderr |-> "piped"]

\* MetadataCommand::wesl_command
wesl_command(c, cenv) ==
    [program |-> IF c.wesl_path.some THEN c.wesl_path.v
                 ELSE IF "WESL" \in DOMAIN cenv THEN cenv["WESL"]
                 ELSE "wesl",
     args |-> <<"metadata">>
              \o (IF c.no_dependencies THEN <<"--no-dependencies">> ELSE <<>>)
              \o (IF c.manifest_path.some
                  THEN <<"--manifest-path", c.manifest_path.v>> ELSE <<>>)
              \o c.other_options,
     current_dir |-> c.current_dir,
     envs |-> ApplyEnv(<<>>, c.env, 1),
     stderr |-> "piped"]

\* The environment the spawned process sees: the caller's, with the
\* Command's entries laid over it (Some sets, None removes).
ChildEnv(cenv, envs) ==
    [k \in {q \in DOMAIN cenv \cup DOMAIN envs :
                IF q \in DOMAIN envs THEN envs[q].some ELSE TRUE} |->
        IF k \in DOMAIN envs THEN envs[k].v ELSE cenv[k]]

\* ------------------------------------------------------------------- exec

\* Variant: standard error is never captured.
CapturedStderr_dropped(cm, o) == <<>>

\* What Command::output captures of the process's standard error: nothing
\* when the stream is inherited.
CapturedStderr(cm, o) == IF cm.stderr = "inherit" THEN <<>> ELSE o.err

\* Variant: the verbose flag is not applied to the command.
ExecCommand_piped(c, cenv) == wesl_command(c, cenv)

\* The command exec runs: wesl_command's, its stderr inherited if verbose.
ExecCommand(c, cenv) ==
    IF c.verbose THEN [wesl_command(c, cenv) EXCEPT !.stderr = "inherit"]
    ELSE wesl_command(c, cenv)

\* Variant: standard output is examined before the exit status.
exec_stdoutfirst(c, cenv, o) ==
    LET cm == ExecCommand(c, cenv)
    IN  IF ~o.spawned THEN Err("Io")
        ELSE IF Utf8_ok(o.out) /\ FindLine(Lines(o.out)).some
        THEN parse(FindLine(Lines(o.out)).v)
        ELSE IF o.status # 0
        THEN IF Utf8_ok(CapturedStderr(cm, o))
             THEN WeslMetadata(CapturedStderr(cm, o))
             ELSE Err("ErrUtf8")
        ELSE IF ~Utf8_ok(o.out) THEN Err("Utf8")
        ELSE Err("NoJson")

\* MetadataCommand::exec, on what the process did.
exec(c, cenv, o) ==
    LET cm == ExecCommand(c, cenv)
    IN  IF ~o.spawned THEN Err("Io")
        ELSE IF o.status # 0
        THEN IF Utf8_ok(CapturedStderr(cm, o))
             THEN WeslMetadata(CapturedStderr(cm, o))
             ELSE Err("ErrUtf8")
        ELSE IF ~Utf8_ok(o.out) THEN Err("Utf8")
        ELSE IF ~FindLine(Lines(o.out)).some THEN Err("NoJson")
        ELSE parse(FindLine(Lines(o.out)).v)

\* Display of Error (thiserror's #[error] strings, their back quotes left
\* out), as text; the cause a variant wraps is not modelled.
ErrorMessage(e) ==
    IF e.kind = "WeslMetadata"
    THEN <<"wesl metadata exited with an error: ">> \o e.stderr
    ELSE IF e.kind = "NoJson"
    THEN <<"could not find any json in the output of wesl metadata">>
    ELSE IF e.kind = "Io" THEN <<"failed to start wesl metadata: ">>
    ELSE IF e.kind = "Utf8"
    THEN <<"cannot convert the stdout of wesl metadata: ">>
    ELSE IF e.kind = "ErrUtf8"
    THEN <<"cannot convert the stderr of wesl metadata: ">>
    ELSE <<"failed to interpret wesl metadata's json: ">>


\* ------------------------------------------------------------ state machine

Idle == [kind |-> "none", stderr |-> <<>>, meta |-> NoneV]
NoQuery == [op |-> "none"]
NoCommand == [program |-> "none"]
NoProc == [spawned |-> FALSE]

\* Everything the external process can do: fail to start, or run to its
\* exit with a status and its two output streams.
Outcomes ==
    {[spawned |-> FALSE]} \cup
    {[spawned |-> TRUE, status |-> st, out |-> o, err |-> e] :
        st \in ExitCodes, o \in SeqsUpTo(OutSymbols, MaxOut), e \in ErrStreams}

\* MetadataCommand::verbose
verbose(b) ==
    /\ pc = "build"
    /\ Len(calls) < MaxCalls
    /\ cmd' = [cmd EXCEPT !.verbose = b]
    /\ calls' = Append(calls, [op |-> "verbose", arg |-> b])
    /\ UNCHANGED <<callerEnv, command, pc, proc, callerStderr, result,
                   doc, parsed, qres>>

\* MetadataCommand::exec: build the command, run it to completion, classify.
Exec ==
    /\ pc = "build"
    /\ \E o \in Outcomes :
         /\ proc' = o
         /\ command' = ExecCommand(cmd, callerEnv)
         /\ callerStderr' =
               IF o.spawned /\ ExecCommand(cmd, callerEnv).stderr = "inherit"
               THEN o.err ELSE <<>>
         /\ result' = exec(cmd, callerEnv, o)
    /\ pc' = "done"
    /\ UNCHANGED <<cmd, calls, callerEnv, doc, parsed, qres>>

Init ==
    /\ cmd = DefaultCommand
    /\ calls = <<>>
    /\ callerEnv = <<>>
    /\ command = NoCommand
    /\ pc = "build"
    /\ proc = NoProc
    /\ callerStderr = <<>>
    /\ result = Idle
    /\ doc = JNull
    /\ parsed = Idle
    /\ qres = NoQuery

\* The caller of exec sets verbosity at most once, then runs exec.
Next ==
    \/ \E b \in BOOLEAN : calls = <<>> /\ verbose(b)
    \/ Exec

Spec == Init /\ [][Next]_vars


\* ------------------------------------------------------- claims about exec

Contains(text, sub) ==
    \E i \in 1..(Len(text) - Len(sub) + 1) :
        SubSeq(text, i, i + Len(sub) - 1) = sub

Ran == pc = "done" /\ proc.spawned
ExitedNonzero == Ran /\ proc.status # 0
\* The process exited with status zero and its standard output is text.
GoodOutput == Ran /\ proc.status = 0 /\ Utf8_ok(proc.out)

\* The positions of standard output at which a line begins with '{', read
\* off the raw stream: the first symbol, or one right after a line ending.
BraceStarts ==
    {i \in 1..Len(proc.out) :
        /\ FirstChar(proc.out[i]) = "{"
        /\ (i = 1 \/ proc.out[i - 1] = "\n")}
FirstBraceStart == CHOOSE i \in BraceStarts : \A k \in BraceStarts : i <= k
\* The line that begins at position i: up to the next line ending.
LineFrom(i) ==
    LET ends == {k \in i..Len(proc.out) : proc.out[k] = "\n"}
        stop == IF ends = {} THEN Len(proc.out) + 1
                ELSE CHOOSE k \in ends : \A q \in ends : k <= q
    IN  SubSeq(proc.out, i, stop - 1)

\* C1 as stated: with verbosity off, a nonzero exit always gives
\* Error::WeslMetadata carrying the process's standard error, which its
\* message contains.
C1_AsStated ==
    (ExitedNonzero /\ ~cmd.verbose) =>
        /\ result.kind = "WeslMetadata"
        /\ result.stderr = proc.err
        /\ Contains(ErrorMessage(result), proc.err)

\* C1, amended: with verbosity off, a nonzero exit never gives Ok; it gives
\* Error::WeslMetadata whose stderr is exactly the captured standard error
\* (so the message contains it) when those bytes are valid UTF-8, and
\* Error::ErrUtf8 when they are not.
C1_ToolFailure ==
    (ExitedNonzero /\ ~cmd.verbose) =>
        /\ result.kind # "Ok"
        /\ Utf8_ok(proc.err) =>
              /\ result.kind = "WeslMetadata"
              /\ result.stderr = proc.err
              /\ Contains(ErrorMessage(result), proc.err)
        /\ ~Utf8_ok(proc.err) => result.kind = "ErrUtf8"

C1_Witness ==
    /\ ExitedNonzero /\ ~cmd.verbose
    /\ proc.status = 1
    /\ proc.err = <<"manifest not found">>
    /\ result.kind = "WeslMetadata"
    /\ Contains(ErrorMessage(result), <<"manifest not found">>)

\* C2: on a zero exit with textual standard output, exec gives
\* Error::NoJson exactly when no line begins with '{', and Error::Json only
\* when a line beginning with '{' was found and did not deserialize; the
\* two kinds never arise otherwise.
C2_NoJsonVersusJson ==
    /\ GoodOutput => (result.kind = "NoJson" <=> BraceStarts = {})
    /\ GoodOutput /\ result.kind = "Json" =>
          /\ BraceStarts # {}
          /\ LET line == LineFrom(FirstBraceStart)
             IN  ~(Syntax_ok(line) /\ Metadata_ok(JsonOf(Trimmed(line)[1])))
    /\ pc = "done" /\ result.kind \in {"NoJson", "Json"} => GoodOutput

\* A '{' is in the output, but at the start of no line.
C2_Witness ==
    /\ GoodOutput
    /\ result.kind = "NoJson"
    /\ \E i \in 1..Len(proc.out) : FirstChar(proc.out[i]) = "{"

\* C3: when some line of standard output begins with '{', the result of
\* exec is the parse of the first such line alone; the lines before it and
\* after it play no part.
C3_FirstBraceLine ==
    (GoodOutput /\ BraceStarts # {}) =>
        result = parse(LineFrom(FirstBraceStart))

\* Three lines, the second the JSON object, the others diagnostics.
C3_Witness ==
    /\ GoodOutput
    /\ proc.out = <<"x", "\n", "{good}", "\n", "x">>
    /\ result.kind = "Ok"
    /\ result.meta.v = Metadata_val(GoodDoc)

\* What exec would have returned for the same process with verbosity the
\* other way round.
OtherVerbosity == exec([cmd EXCEPT !.verbose = ~@], callerEnv, proc)

\* C10 as stated: verbosity passes standard error through and empties the
\* failure's text, and changes nothing else: the kind of the result is the
\* same either way, and so is the whole result on a zero exit.
C10_AsStated ==
    pc = "done" =>
        /\ (Ran /\ cmd.verbose) => callerStderr = proc.err
        /\ (ExitedNonzero /\ cmd.verbose) => result = WeslMetadata(<<>>)
        /\ result.kind = OtherVerbosity.kind
        /\ (Ran /\ proc.status = 0) => result = OtherVerbosity

\* C10, amended: verbosity passes standard error through to the caller's
\* stream, so a nonzero exit gives Error::WeslMetadata with empty text; the
\* result is otherwise the same as without verbosity, except that a
\* standard error that is not valid UTF-8 gives Error::ErrUtf8 without
\* verbosity and Error::WeslMetadata with it.
C10_Verbose ==
    pc = "done" =>
        /\ (Ran /\ cmd.verbose) => callerStderr = proc.err
        /\ (Ran /\ ~cmd.verbose) => callerStderr = <<>>
        /\ (ExitedNonzero /\ cmd.verbose) => result = WeslMetadata(<<>>)
        /\ (ExitedNonzero /\ Utf8_ok(proc.err)) =>
              result.kind = OtherVerbosity.kind
        /\ (ExitedNonzero /\ ~Utf8_ok(proc.err)) =>
              /\ result.kind = (IF cmd.verbose THEN "WeslMetadata" ELSE "ErrUtf8")
              /\ OtherVerbosity.kind =
                    (IF cmd.verbose THEN "ErrUtf8" ELSE "WeslMetadata")
        /\ ~ExitedNonzero => result = OtherVerbosity

C10_Witness ==
    /\ ExitedNonzero /\ cmd.verbose
    /\ proc.err = <<"manifest not found">>
    /\ callerStderr = <<"manifest not found">>
    /\ result = WeslMetadata(<<>>)


\* ------------------------------------------------- the builder's operations

PathArgs == {"p1", "p2"}
OptionLists == {<<>>, <<"--offline">>, <<"--manifest-path", "p1">>}
EnvVals == {"v1", "v2"}
\* The environments the caller may have inherited.
CallerEnvs == UNION {[S -> {"v0"}] : S \in SUBSET KeySet}

CanCall == pc = "build" /\ Len(calls) < MaxCalls
BuilderRest == <<callerEnv, command, pc, proc, callerStderr, result,
                 doc, parsed, qres>>

\* MetadataCommand::wesl_path
wesl_path(p) ==
    /\ CanCall
    /\ cmd' = [cmd EXCEPT !.wesl_path = Some(p)]
    /\ calls' = Append(calls, [op |-> "wesl_path", arg |-> p])
    /\ UNCHANGED BuilderRest

\* MetadataCommand::manifest_path
manifest_path(p) ==
    /\ CanCall
    /\ cmd' = [cmd EXCEPT !.manifest_path = Some(p)]
    /\ calls' = Append(calls, [op |-> "manifest_path", arg |-> p])
    /\ UNCHANGED BuilderRest

\* MetadataCommand::current_dir
current_dir(p) ==
    /\ CanCall
    /\ cmd' = [cmd EXCEPT !.current_dir = Some(p)]
    /\ calls' = Append(calls, [op |-> "current_dir", arg |-> p])
    /\ UNCHANGED BuilderRest

\* MetadataCommand::no_dependencies
no_dependencies ==
    /\ CanCall
    /\ cmd' = [cmd EXCEPT !.no_dependencies = TRUE]
    /\ calls' = Append(calls, [op |-> "no_dependencies"])
    /\ UNCHANGED BuilderRest

\* MetadataCommand::other_options
other_options(options) ==
    /\ CanCall
    /\ cmd' = [cmd EXCEPT !.other_options = options]
    /\ calls' = Append(calls, [op |-> "other_options", arg |-> options])
    /\ UNCHANGED BuilderRest

\* MetadataCommand::env
env(key, val) ==
    /\ CanCall
    /\ cmd' = [cmd EXCEPT !.env = MapInsert(@, key, Some(val))]
    /\ calls' = Append(calls, [op |-> "env", key |-> key, val |-> val])
    /\ UNCHANGED BuilderRest

\* MetadataCommand::env_remove
env_remove(key) ==
    /\ CanCall
    /\ cmd' = [cmd EXCEPT !.env = MapInsert(@, key, NoneV)]
    /\ calls' = Append(calls, [op |-> "env_remove", key |-> key])
    /\ UNCHANGED BuilderRest

\* MetadataCommand::wesl_command
WeslCommand ==
    /\ pc = "build"
    /\ command' = wesl_command(cmd, callerEnv)
    /\ pc' = "built"
    /\ UNCHANGED <<cmd, calls, callerEnv, proc, callerStderr, result,
                   doc, parsed, qres>>

InitCommand ==
    /\ cmd = DefaultCommand
    /\ calls = <<>>
    /\ callerEnv \in CallerEnvs
    /\ command = NoCommand
    /\ pc = "build"
    /\ proc = NoProc
    /\ callerStderr = <<>>
    /\ result = Idle
    /\ doc = JNull
    /\ parsed = Idle
    /\ qres = NoQuery

NextCommand ==
    \/ wesl_path("w")
    \/ \E p \in PathArgs : manifest_path(p)
    \/ current_dir("d")
    \/ no_dependencies
    \/ \E o \in OptionLists : other_options(o)
    \/ \E k \in KeySet, v \in EnvVals : env(k, v)
    \/ \E k \in KeySet : env_remove(k)
    \/ \E b \in BOOLEAN : verbose(b)
    \/ WeslCommand

SpecCommand == InitCommand /\ [][NextCommand]_vars

\* --------------------------------------------------- claims about the builder

Called(op) == \E i \in 1..Len(calls) : calls[i].op = op
\* The last call of the setter op.
LastCall(op) ==
    calls[CHOOSE i \in 1..Len(calls) :
            /\ calls[i].op = op
            /\ \A k \in (i + 1)..Len(calls) : calls[k].op # op]

EnvCalls(key) ==
    {i \in 1..Len(calls) :
        calls[i].op \in {"env", "env_remove"} /\ calls[i].key = key}
LastEnvCall(key) ==
    calls[CHOOSE i \in EnvCalls(key) : \A k \in EnvCalls(key) : k <= i]

\* C8: whatever builder calls were made and in whatever order, the argument
\* list is "metadata", then "--no-dependencies" iff no_dependencies was
\* called, then "--manifest-path" and the last path given iff manifest_path
\* was called, then the options last given to other_options, and nothing
\* else.
C8_ArgumentOrder ==
    pc = "built" =>
        command.args =
            <<"metadata">>
            \o (IF Called("no_dependencies")
                THEN <<"--no-dependencies">> ELSE <<>>)
            \o (IF Called("manifest_path")
                THEN <<"--manifest-path", LastCall("manifest_path").arg>>
                ELSE <<>>)
            \o (IF Called("other_options")
                THEN LastCall("other_options").arg ELSE <<>>)

\* The setters called in the reverse of the order of their arguments.
C8_Witness ==
    /\ pc = "built"
    /\ Len(calls) = 3
    /\ calls[1] = [op |-> "other_options", arg |-> <<"--offline">>]
    /\ calls[2] = [op |-> "manifest_path", arg |-> "p2"]
    /\ calls[3] = [op |-> "no_dependencies"]
    /\ command.args =
          <<"metadata", "--no-dependencies", "--manifest-path", "p2",
            "--offline">>

\* C9: in the environment of the spawned process each key has the effect of
\* the last env or env_remove call made for it (set to that value, or
\* absent), and a key no call named keeps what the caller's environment
\* has for it.
C9_LastEnvCallWins ==
    pc = "built" =>
        LET child == ChildEnv(callerEnv, command.envs)
        IN  \A k \in KeySet :
              IF EnvCalls(k) = {}
              THEN /\ k \in DOMAIN child <=> k \in DOMAIN callerEnv
                   /\ k \in DOMAIN child => child[k] = callerEnv[k]
              ELSE IF LastEnvCall(k).op = "env"
              THEN k \in DOMAIN child /\ child[k] = LastEnvCall(k).val
              ELSE k \notin DOMAIN child

\* One key set, removed and set again; the other key inherited.
C9_Witness ==
    /\ pc = "built"
    /\ Len(calls) = 3
    /\ calls[1] = [op |-> "env", key |-> "OUT_DIR", val |-> "v1"]
    /\ calls[2] = [op |-> "env_remove", key |-> "OUT_DIR"]
    /\ calls[3] = [op |-> "env", key |-> "OUT_DIR", val |-> "v2"]
    /\ "WESL" \in DOMAIN callerEnv
    /\ ChildEnv(callerEnv, command.envs) =
          [k \in KeySet |-> IF k = "OUT_DIR" THEN "v2" ELSE "v0"]


\* ------------------------------------------------- queries on the Metadata
\* A &Package or &Node is the position of the element it refers to.

\* self.packages.iter().find(|pkg| pkg.id == id)
PackageById(meta, id) ==
    LET hits == {i \in 1..Len(meta.packages) : meta.packages[i].id = id}
    IN  IF hits = {} THEN NoneV
        ELSE Some(CHOOSE i \in hits : \A k \in hits : i <= k)

\* self.packages.iter().find(|pkg| pkg.manifest_path == path)
PackageByManifest(meta, path) ==
    LET hits == {i \in 1..Len(meta.packages) :
                    PathEq(meta.packages[i].manifest_path, path)}
    IN  IF hits = {} THEN NoneV
        ELSE Some(CHOOSE i \in hits : \A k \in hits : i <= k)

\* self.nodes.iter().find(|package| package.id == id)
NodeById(resolve, id) ==
    LET hits == {i \in 1..Len(resolve.nodes) : resolve.nodes[i].id = id}
    IN  IF hits = {} THEN NoneV
        ELSE Some(CHOOSE i \in hits : \A k \in hits : i <= k)

\* Variant: the manifest path is tried when the id lookup finds nothing.
root_package_fallback(meta) ==
    LET byManifest ==
            PackageByManifest(
                meta, Join(meta.root_package_directory, ManifestFile))
    IN  IF meta.resolve.some /\ meta.resolve.v.root.some
           /\ PackageById(meta, meta.resolve.v.root.v).some
        THEN PackageById(meta, meta.resolve.v.root.v)
        ELSE byManifest

\* Metadata::root_package
root_package(meta) ==
    IF meta.resolve.some
    THEN IF ~meta.resolve.v.root.some THEN NoneV
         ELSE PackageById(meta, meta.resolve.v.root.v)
    ELSE PackageByManifest(
             meta, Join(meta.root_package_directory, ManifestFile))

\* Variant: the last match instead of the first.
index_metadata_last(meta, id) ==
    LET hits == {i \in 1..Len(meta.packages) : meta.packages[i].id = id}
    IN  IF hits = {} THEN [panic |-> TRUE]
        ELSE [panic |-> FALSE, at |-> CHOOSE i \in hits : \A k \in hits : k <= i]

\* Index<&PackageId> for Metadata: the match, or a panic.
index_metadata(meta, id) ==
    IF PackageById(meta, id).some
    THEN [panic |-> FALSE, at |-> PackageById(meta, id).v]
    ELSE [panic |-> TRUE]

\* Index<&PackageId> for Resolve: the match, or a panic.
index_resolve(resolve, id) ==
    IF NodeById(resolve, id).some
    THEN [panic |-> FALSE, at |-> NodeById(resolve, id).v]
    ELSE [panic |-> TRUE]

\* ------------------------------------------------- the graph's state machine

Ids == {"a", "b"}
ManifestPaths == {<<"r", "/", "wesl.toml">>, <<"d", "/", "wesl.toml">>}
Dirs == {<<"r">>, <<"r", "/">>}

PkgObjs == {PkgObj(id, mp) : id \in Ids, mp \in ManifestPaths}
NodeObjs ==
    {NodeObj(id, deps, <<>>) : id \in Ids, deps \in {<<>>, <<JStr("b")>>}}
    \cup
    {WithoutKey(NodeObj(id, deps, <<>>), "renamed_dependencies") :
        id \in Ids, deps \in {<<>>, <<JStr("b")>>}}
    \cup
    {NodeObj(id, <<>>, <<JObj([name |-> JStr("n"), pkg |-> JStr("a")])>>) :
        id \in Ids}
ResolveObjs ==
    LET bare == {JObj([nodes |-> JArr(ns)]) :
                    ns \in SeqsUpTo(NodeObjs, MaxNodes)}
    IN  bare \cup {WithKey(r, "root", x) :
                       r \in bare, x \in {JNull} \cup {JStr(id) : id \in Ids}}
BareDocs ==
    {DocObj(pkgs, dir) : pkgs \in SeqsUpTo(PkgObjs, MaxPkgs), dir \in Dirs}
\* JSON objects that do not satisfy the schema.
DefectiveDocs ==
    {WithoutKey(GoodDoc, "version"),
     WithKey(GoodDoc, "packages",
             JArr(<<WithoutKey(PkgObj("a", <<"r">>), "id")>>)),
     WithKey(GoodDoc, "resolve", JObj([root |-> JStr("a")])),
     WithKey(GoodDoc, "package_manager", JStr("Pip"))}
Docs ==
    BareDocs
    \cup {WithKey(d, "resolve", r) :
              d \in BareDocs, r \in {JNull} \cup ResolveObjs}
    \cup DefectiveDocs

GraphRest == <<cmd, calls, callerEnv, command, proc, callerStderr, result>>

\* MetadataCommand::parse, on the JSON value the text denotes.
Parse ==
    /\ pc = "parse"
    /\ parsed' = ParseJson(doc)
    /\ pc' = IF ParseJson(doc).kind = "Ok" THEN "parsed" ELSE "failed"
    /\ UNCHANGED <<doc, qres>>
    /\ UNCHANGED GraphRest

\* Metadata::root_package
RootPackage ==
    /\ pc = "parsed"
    /\ qres' = [op |-> "root_package", out |-> root_package(parsed.meta.v)]
    /\ UNCHANGED <<pc, doc, parsed>>
    /\ UNCHANGED GraphRest

\* metadata[&id]: a panic ends the program.
IndexMetadata(id) ==
    /\ pc = "parsed"
    /\ qres' = [op |-> "index_metadata", id |-> id,
                out |-> index_metadata(parsed.meta.v, id)]
    /\ pc' = IF index_metadata(parsed.meta.v, id).panic
             THEN "panicked" ELSE "parsed"
    /\ UNCHANGED <<doc, parsed>>
    /\ UNCHANGED GraphRest

\* resolve[&id]: a panic ends the program.
IndexResolve(id) ==
    /\ pc = "parsed"
    /\ parsed.meta.v.resolve.some
    /\ qres' = [op |-> "index_resolve", id |-> id,
                out |-> index_resolve(parsed.meta.v.resolve.v, id)]
    /\ pc' = IF index_resolve(parsed.meta.v.resolve.v, id).panic
             THEN "panicked" ELSE "parsed"
    /\ UNCHANGED <<doc, parsed>>
    /\ UNCHANGED GraphRest

InitGraph ==
    /\ cmd = DefaultCommand
    /\ calls = <<>>
    /\ callerEnv = <<>>
    /\ command = NoCommand
    /\ pc = "parse"
    /\ proc = NoProc
    /\ callerStderr = <<>>
    /\ result = Idle
    /\ doc \in Docs
    /\ parsed = Idle
    /\ qres = NoQuery

NextGraph ==
    \/ Parse
    \/ RootPackage
    \/ \E id \in Ids : IndexMetadata(id)
    \/ \E id \in Ids : IndexResolve(id)

SpecGraph == InitGraph /\ [][NextGraph]_vars


\* ------------------------------------------------- claims about the graph

\* The Metadata a successful parse returned.
M == parsed.meta.v
InRange(s) == {s[i] : i \in 1..Len(s)}
PackageIds(meta) == {meta.packages[i].id : i \in 1..Len(meta.packages)}
\* The positions of packages whose id is id, and of nodes likewise.
PackagesWithId(id) == {i \in 1..Len(M.packages) : M.packages[i].id = id}
NodesWithId(id) ==
    {i \in 1..Len(M.resolve.v.nodes) : M.resolve.v.nodes[i].id = id}
\* The positions of packages whose manifest path is, component by
\* component, the root package directory followed by the manifest file.
PackagesAtRoot ==
    {i \in 1..Len(M.packages) :
        Components(M.packages[i].manifest_path) =
            Components(M.root_package_directory) \o <<ManifestFile>>}

\* C4: with resolve present, root_package is the package whose id is
\* resolve.root (the first in packages order), and None when root is absent
\* or no package has that id, whatever the manifest paths are.
C4_RootFromResolve ==
    (qres.op = "root_package" /\ M.resolve.some) =>
        LET root == M.resolve.v.root
        IN  IF root.some /\ PackagesWithId(IF root.some THEN root.v ELSE "") # {}
            THEN /\ qres.out.some
                 /\ M.packages[qres.out.v].id = root.v
                 /\ \A k \in PackagesWithId(root.v) : qres.out.v <= k
            ELSE qres.out = NoneV

\* The root by id is the second package, while the first is the one at
\* the root package directory.
C4_Witness ==
    /\ qres.op = "root_package"
    /\ M.resolve.some /\ M.resolve.v.root = Some("b")
    /\ Len(M.packages) = 2
    /\ M.packages[1].id = "a" /\ M.packages[2].id = "b"
    /\ PackagesAtRoot = {1}
    /\ qres.out = Some(2)

\* C5: with resolve absent, root_package is the first package whose
\* manifest path is the root package directory joined with "wesl.toml",
\* and None when there is none; ids play no part.
C5_RootFromManifest ==
    (qres.op = "root_package" /\ ~M.resolve.some) =>
        IF PackagesAtRoot = {} THEN qres.out = NoneV
        ELSE /\ qres.out.some
             /\ qres.out.v \in PackagesAtRoot
             /\ \A k \in PackagesAtRoot : qres.out.v <= k

\* Two packages of one id; the second is the one at the root directory.
C5_Witness ==
    /\ qres.op = "root_package"
    /\ ~M.resolve.some
    /\ Len(M.packages) = 2
    /\ M.packages[1].id = M.packages[2].id
    /\ PackagesAtRoot = {2}
    /\ qres.out = Some(2)

RefIds(resolve) ==
    (IF resolve.root.some THEN {resolve.root.v} ELSE {})
    \cup UNION {
        {resolve.nodes[i].id}
        \cup InRange(resolve.nodes[i].dependencies)
        \cup {d.pkg : d \in InRange(resolve.nodes[i].renamed_dependencies)} :
        i \in 1..Len(resolve.nodes)}

\* The same two sets of ids, read off the JSON value itself.
JsonPackageIds(j) == {p.v["id"].v : p \in InRange(j.v["packages"].v)}
JsonRefIds(r) ==
    (IF HasKey(r, "root") /\ r.v["root"].t = "str"
     THEN {r.v["root"].v} ELSE {})
    \cup UNION {
        {n.v["id"].v}
        \cup {d.v : d \in InRange(n.v["dependencies"].v)}
        \cup (IF HasKey(n, "renamed_dependencies")
              THEN {d.v["pkg"].v :
                       d \in InRange(n.v["renamed_dependencies"].v)}
              ELSE {}) :
        n \in InRange(r.v["nodes"].v)}

Resolved == pc # "parse" /\ parsed.kind = "Ok" /\ M.resolve.some

\* C7 as stated: in every Metadata a successful parse returns with resolve
\* present, every id the resolve graph refers to is the id of a package.
C7_AsStated == Resolved => RefIds(M.resolve.v) \subseteq PackageIds(M)

\* C7, amended: parse does not check the ids: the Metadata it returns has
\* exactly the package ids and the resolve references of the JSON payload,
\* so the references all name packages if and only if they do in the
\* payload.
C7_IdsAsInPayload ==
    Resolved =>
        /\ PackageIds(M) = JsonPackageIds(doc)
        /\ RefIds(M.resolve.v) = JsonRefIds(doc.v["resolve"])
        /\ (RefIds(M.resolve.v) \subseteq PackageIds(M)) <=>
              (JsonRefIds(doc.v["resolve"]) \subseteq JsonPackageIds(doc))

\* A successful parse whose resolve refers to an id of no package.
C7_Witness ==
    /\ Resolved
    /\ "a" \in RefIds(M.resolve.v)
    /\ "a" \notin PackageIds(M)


\* ------------------------------------------- the order of exec's checks

\* The bytes exec has of the process's standard error: none under
\* verbosity, where the stream goes to the caller's.
CapturedBytes == IF cmd.verbose THEN <<>> ELSE proc.err
HasBadByte(bytes) == "BAD" \in InRange(bytes)

\* C13: exec gives exactly one outcome, decided by the first check that
\* fails, in this order: the process did not start (Io); it exited nonzero
\* (ErrUtf8 if the captured standard error is not UTF-8, else WeslMetadata,
\* standard output not looked at); standard output is not UTF-8 (Utf8); no
\* line begins with '{' (NoJson); the first such line does not deserialize
\* (Json); otherwise Ok with the Metadata of that line.
C13_OrderOfChecks ==
    pc = "done" =>
        /\ result.kind \in
              {"Io", "WeslMetadata", "ErrUtf8", "Utf8", "NoJson", "Json", "Ok"}
        /\ result.kind = "Ok" <=> result.meta.some
        /\ IF ~proc.spawned THEN result.kind = "Io"
           ELSE IF proc.status # 0
           THEN /\ result.kind =
                      (IF HasBadByte(CapturedBytes) THEN "ErrUtf8"
                       ELSE "WeslMetadata")
                /\ result = exec(cmd, callerEnv, [proc EXCEPT !.out = <<>>])
           ELSE IF HasBadByte(proc.out) THEN result.kind = "Utf8"
           ELSE IF BraceStarts = {} THEN result.kind = "NoJson"
           ELSE LET line == LineFrom(FirstBraceStart)
                    good == /\ Syntax_ok(line)
                            /\ Metadata_ok(JsonOf(Trimmed(line)[1]))
                IN  IF ~good THEN result.kind = "Json"
                    ELSE result = Ok(Metadata_val(JsonOf(Trimmed(line)[1])))

\* A nonzero exit whose standard output holds a valid payload.
C13_Witness ==
    /\ pc = "done" /\ proc.spawned
    /\ proc.status = 1
    /\ proc.out = <<"{good}">>
    /\ Utf8_ok(proc.err)
    /\ result.kind = "WeslMetadata"


\* ------------------------------------------ deserializing a Target, a Node

TargetObj ==
    JObj([name |-> JStr("lib"), src_path |-> JStr(<<"r", "/", "lib.wesl">>)])
\* The target objects a tool may print: any of doctest, test and doc there
\* or not, with either value; edition and required-features there or not.
RECURSIVE WithFlags(_, _)
WithFlags(js, keys) ==
    IF keys = <<>> THEN js
    ELSE WithFlags(
             js \cup {WithKey(j, Head(keys), JBool(b)) :
                         j \in js, b \in BOOLEAN},
             Tail(keys))
TargetDocs ==
    LET flagged == WithFlags({TargetObj}, <<"doctest", "test", "doc">>)
        edited == flagged
                  \cup {WithKey(j, "edition", JStr("WESL")) : j \in flagged}
    IN  edited
        \cup {WithKey(j, "required-features", JArr(<<JStr("f")>>)) :
                 j \in edited}
\* Target objects that violate the schema.
DefectiveTargetDocs ==
    {WithoutKey(TargetObj, "name"),
     WithKey(TargetObj, "doc", JNull),
     WithKey(TargetObj, "src_path", JNull)}
\* Node objects that violate the schema.
DefectiveNodeDocs ==
    {WithKey(NodeObj("a", <<>>, <<>>), "renamed_dependencies", JNull),
     WithoutKey(NodeObj("a", <<>>, <<>>), "dependencies")}

SerdeRest == <<cmd, calls, callerEnv, command, proc, callerStderr, qres>>

\* serde_json::from_str::<Target>
FromStrTarget ==
    /\ pc = "de_Target"
    /\ parsed' = ParseTarget(doc)
    /\ pc' = "done_Target"
    /\ UNCHANGED <<doc, result>>
    /\ UNCHANGED SerdeRest

\* serde_json::from_str::<Node>
FromStrNode ==
    /\ pc = "de_Node"
    /\ parsed' = ParseNode(doc)
    /\ pc' = "done_Node"
    /\ UNCHANGED <<doc, result>>
    /\ UNCHANGED SerdeRest


\* ----------------------------------------------------------- serialization
\* serde's derived Serialize: every field is written, None as null, except
\* a field whose skip_serializing_if holds.

\* fn is_null
is_null(value) == value.t = "null"

\* Edition's serde renames; Edition::as_str gives the same strings.
Edition_ser(e) == IF e = "Wgsl" THEN "WGSL" ELSE "WESL"

OptString_ser(o) == IF o.some THEN JStr(o.v) ELSE JNull

Dependency_ser(d) ==
    JObj([name |-> JStr(d.name), rename |-> OptString_ser(d.rename),
          path |-> OptString_ser(d.path)])

Package_ser(p) ==
    LET always ==
            JObj([name |-> JStr(p.name), version |-> JStr(p.version),
                  id |-> JStr(p.id),
                  description |-> OptString_ser(p.description),
                  dependencies |->
                      JArr(MapSeq(p.dependencies, Dependency_ser)),
                  manifest_path |-> JStr(p.manifest_path),
                  edition |-> JStr(Edition_ser(p.edition))])
    IN  IF is_null(p.metadata) THEN always
        ELSE WithKey(always, "metadata", p.metadata)

NodeDependency_ser(d) == JObj([name |-> JStr(d.name), pkg |-> JStr(d.pkg)])

Node_ser(n) ==
    JObj([id |-> JStr(n.id),
          renamed_dependencies |->
              JArr(MapSeq(n.renamed_dependencies, NodeDependency_ser)),
          dependencies |-> JArr(MapSeq(n.dependencies, JStr))])

Resolve_ser(r) ==
    JObj([nodes |-> JArr(MapSeq(r.nodes, Node_ser)),
          root |-> OptString_ser(r.root)])

Metadata_ser(m) ==
    JObj([package_manager |-> JStr(m.package_manager),
          packages |-> JArr(MapSeq(m.packages, Package_ser)),
          resolve |-> IF m.resolve.some THEN Resolve_ser(m.resolve.v)
                      ELSE JNull,
          target_directory |-> JStr(m.target_directory),
          version |-> JNum(m.version),
          root_package_directory |-> JStr(m.root_package_directory)])

\* The Metadata values a caller may hold.
DependencyValue == [name |-> "n", rename |-> Some("m"), path |-> NoneV]
PackageValues ==
    {[name |-> "n", version |-> "1.0.0", id |-> "a", description |-> d,
      dependencies |-> ds, manifest_path |-> <<"r", "/", "wesl.toml">>,
      edition |-> e, metadata |-> md] :
        d \in {NoneV, Some("d")},
        ds \in {<<>>, <<DependencyValue>>},
        e \in {"Wgsl", "WeslUnstable2025"},
        md \in {JNull, JObj([some_value |-> JNum(42)])}}
NodeValues ==
    {[id |-> "a", renamed_dependencies |-> rs, dependencies |-> ds] :
        rs \in {<<>>, <<[name |-> "n", pkg |-> "b"]>>},
        ds \in {<<>>, <<"b">>}}
ResolveValues ==
    {[nodes |-> ns, root |-> rt] :
        ns \in {<<>>} \cup {<<n>> : n \in NodeValues},
        rt \in {NoneV, Some("a")}}
MetaValues ==
    {[package_manager |-> pm, packages |-> ps, resolve |-> rs,
      target_directory |-> <<"t">>, version |-> 1,
      root_package_directory |-> <<"r">>] :
        pm \in {"Npm", "Cargo"},
        ps \in SeqsUpTo(PackageValues, MaxPkgs),
        rs \in {NoneV} \cup {Some(r) : r \in ResolveValues}}

\* serde_json::to_string(&metadata), up to the JSON value the text denotes.
ToJson ==
    /\ pc = "ser"
    /\ doc' = Metadata_ser(result.meta.v)
    /\ pc' = "serialized"
    /\ UNCHANGED <<parsed, result>>
    /\ UNCHANGED SerdeRest

\* MetadataCommand::parse on what ToJson wrote.
FromStrMetadata ==
    /\ pc = "serialized"
    /\ parsed' = ParseJson(doc)
    /\ pc' = "done_Metadata"
    /\ UNCHANGED <<doc, result>>
    /\ UNCHANGED SerdeRest

InitSerde ==
    /\ cmd = DefaultCommand
    /\ calls = <<>>
    /\ callerEnv = <<>>
    /\ command = NoCommand
    /\ proc = NoProc
    /\ callerStderr = <<>>
    /\ parsed = Idle
    /\ qres = NoQuery
    /\ \/ /\ pc = "de_Target"
          /\ doc \in TargetDocs \cup DefectiveTargetDocs
          /\ result = Idle
       \/ /\ pc = "de_Node"
          /\ doc \in NodeObjs \cup DefectiveNodeDocs
          /\ result = Idle
       \/ /\ pc = "ser"
          /\ doc = JNull
          /\ result \in {Ok(m) : m \in MetaValues}

NextSerde ==
    \/ FromStrTarget
    \/ FromStrNode
    \/ ToJson
    \/ FromStrMetadata

SpecSerde == InitSerde /\ [][NextSerde]_vars

\* ------------------------------------------- claims about (de)serialization

\* C11: a Metadata value serialized to JSON and deserialized again is the
\* value it was; the JSON of a package has no "metadata" key exactly when
\* the package's metadata is null, and null is what comes back.
C11_RoundTrip ==
    /\ pc \in {"serialized", "done_Metadata"} =>
          \A i \in 1..Len(result.meta.v.packages) :
              HasKey(doc.v["packages"].v[i], "metadata")
                  <=> ~is_null(result.meta.v.packages[i].metadata)
    /\ pc = "done_Metadata" =>
          /\ parsed.kind = "Ok"
          /\ parsed.meta.v = result.meta.v

\* A value with resolve present, a package whose metadata is null next to
\* one whose metadata is not, and both editions.
C11_Witness ==
    /\ pc = "done_Metadata"
    /\ parsed = result
    /\ result.meta.v.resolve.some
    /\ Len(result.meta.v.packages) = 2
    /\ is_null(result.meta.v.packages[1].metadata)
    /\ ~is_null(result.meta.v.packages[2].metadata)
    /\ result.meta.v.packages[1].edition # result.meta.v.packages[2].edition
    /\ ~result.meta.v.packages[1].description.some

\* The keys a target object needs, and the optional ones well typed.
TargetWellFormed(j) == j \in TargetDocs
NodeWellFormed(j) == j \in NodeObjs

\* C12: a target object deserializes although doctest, test or doc is
\* missing, each missing one being true and each given one its given
\* value; a node object deserializes although renamed_dependencies is
\* missing, the field then being empty, and otherwise what was given.
C12_Defaults ==
    /\ pc = "done_Target" =>
          /\ TargetWellFormed(doc) => parsed.kind = "Ok"
          /\ parsed.kind = "Ok" =>
                /\ parsed.meta.v.doctest =
                      (IF HasKey(doc, "doctest") THEN doc.v["doctest"].v
                       ELSE TRUE)
                /\ parsed.meta.v.test =
                      (IF HasKey(doc, "test") THEN doc.v["test"].v ELSE TRUE)
                /\ parsed.meta.v.doc =
                      (IF HasKey(doc, "doc") THEN doc.v["doc"].v ELSE TRUE)
    /\ pc = "done_Node" =>
          /\ NodeWellFormed(doc) => parsed.kind = "Ok"
          /\ parsed.kind = "Ok" =>
                IF HasKey(doc, "renamed_dependencies")
                THEN Len(parsed.meta.v.renamed_dependencies) =
                         Len(doc.v["renamed_dependencies"].v)
                     /\ \A i \in 1..Len(parsed.meta.v.renamed_dependencies) :
                           /\ parsed.meta.v.renamed_dependencies[i].name =
                                 doc.v["renamed_dependencies"].v[i].v["name"].v
                           /\ parsed.meta.v.renamed_dependencies[i].pkg =
                                 doc.v["renamed_dependencies"].v[i].v["pkg"].v
                ELSE parsed.meta.v.renamed_dependencies = <<>>

\* A target object with none of the three flags.
C12_Witness ==
    /\ pc = "done_Target"
    /\ ~HasKey(doc, "doctest") /\ ~HasKey(doc, "test") /\ ~HasKey(doc, "doc")
    /\ parsed.kind = "Ok"
    /\ parsed.meta.v.doctest /\ parsed.meta.v.test /\ parsed.meta.v.doc


====
